---- MODULE Spec2Model ----
(***************************************************************************)
(* Model of the OEM retrieval driver of ARTS (src/src/m_oem.cc):           *)
(*   - the workspace method oem: input checks, a priori evaluation, the    *)
(*     start-cost guard, the dispatch to the solvers and the diagnostics;  *)
(*   - the state codec setup_xa / x2arts_std with its grid mappers.        *)
(* The solvers (oem.cc) and the regridding primitives are not part of the  *)
(* sources at hand; the operators that stand for them say so.              *)
(***************************************************************************)
EXTENDS Integers, Sequences, FiniteSets, TLC

(***************************************************************************)
(* Bounds of the model.                                                    *)
(***************************************************************************)
MaxIter == 2          \* largest max_iter tried
MaxCost == 2          \* cost values returned by the cost evaluator: 0..MaxCost

(***************************************************************************)
(* Program constants.                                                      *)
(***************************************************************************)
NaN == 0 - 1                 \* NAN; every defined cost/code/gamma is >= 0
HIGH_START_COST == 99        \* oem_diagnostics[0] written on the guard path
GammaScale == 2 * 2 * 2      \* gamma is stored multiplied by GammaScale
gamma_start_high == 2 * 100     \* a start value above gamma_max
gamma_start == 4
gamma_max == 100
gamma_decrease == 2
gamma_increase_unit == 3 - 2        \* an increase factor that does not increase
gamma_increase == 3
gamma_threshold == 1

\* Return codes of the solvers (oem.cc).
CONVERGED == 0
MAX_ITER == 1
GAMMA_MAX == 2
NUMERIC_FAILURE == 9

TerminationCodes == {CONVERGED, MAX_ITER, GAMMA_MAX, NUMERIC_FAILURE, HIGH_START_COST}

(***************************************************************************)
(* Helpers on sequences.                                                   *)
(***************************************************************************)
Fill(n, v) == [i \in 1..n |-> v]

RECURSIVE SeqMin(_)
SeqMin(s) ==
  IF Len(s) = 1 THEN s[1]
  ELSE LET r == SeqMin(Tail(s)) IN IF s[1] < r THEN s[1] ELSE r

\* a > b as IEEE does it: false as soon as one side is NaN
Gt(a, b) == a # NaN /\ b # NaN /\ a > b

VARIABLES
  args,             \* the const arguments of the running call of oem
  pc,               \* position in oem
  error,            \* message of the runtime_error thrown, "" if none
  x, xa, yf, jacobian, dxdy, oem_diagnostics, ml_ga_history,   \* outputs
  cost_start,       \* local of oem
  sol,              \* locals of the running solver
  nJacCalls,        \* inversion_iterate_agenda executions with jacobian_do = 1
  nFwdCalls,        \* inversion_iterate_agenda executions with jacobian_do = 0
  gammaTrace,       \* history: gamma (scaled) used in each iteration
  cargs,            \* codec: atmosphere, quantities, indices and build of the run
  cpc,              \* codec: position in the sequence setup_xa, x2arts_std
  cq,               \* codec: the quantity the running loop is at (1-based)
  run,              \* codec: xa, t_field, vmr_field and how the call fares
  xin,              \* codec: the x handed to x2arts_std
  bargs,            \* batch: the arguments of the running batch method
  bst,              \* batch: per instance "todo", "busy", "done" or "failed"
  bproc,            \* batch: "running", "returned", "thrown" or "exited"
  batch_atm_fields_compact,            \* batch output
  batch_atm_hydromet_fields_compact    \* batch output

oemvars == <<args, pc, error, x, xa, yf, jacobian, dxdy, oem_diagnostics,
             ml_ga_history, cost_start, sol, nJacCalls, nFwdCalls, gammaTrace>>
codecvars == <<cargs, cpc, cq, run, xin>>
batchvars == <<bargs, bst, bproc, batch_atm_fields_compact,
               batch_atm_hydromet_fields_compact>>
vars == <<oemvars, codecvars, batchvars>>

outputs == <<x, xa, yf, jacobian, dxdy, oem_diagnostics, ml_ga_history>>

(***************************************************************************)
(* Values the outputs hold before the call.                                *)
(***************************************************************************)
Vec(st, nelem, id) == [st |-> st, nelem |-> nelem, id |-> id]
Mat(st, nrows, ncols) == [st |-> st, nrows |-> nrows, ncols |-> ncols]
\* a simulated measurement is kept by its length and its data cost against y
Meas(st, nelem, cost_y) == [st |-> st, nelem |-> nelem, cost_y |-> cost_y]
PriorVec == Vec("prior", 0, 0)
PriorMeas == Meas("prior", 0, NaN)
PriorMat == Mat("prior", 0, 0)
NoSol == [used_iter |-> 0, gamma |-> 0, cost |-> NaN, cost_y |-> NaN,
          cost_x |-> NaN, trial |-> NaN, ret |-> NaN, called |-> FALSE]

(***************************************************************************)
(* Retrieval quantities (class RetrievalQuantity): main tag, subtag, mode  *)
(* and the retrieval grids, one per atmospheric dimension.                 *)
(***************************************************************************)
TEMPERATURE_MAINTAG == "Temperature"
ABSSPECIES_MAINTAG == "Absorption species"

RQ(maintag, subtag, mode, grids) ==
  [MainTag |-> maintag, Subtag |-> subtag, Mode |-> mode, Grids |-> grids]

(***************************************************************************)
(* Tensors as matpack stores them: the extents and the elements in one     *)
(* buffer, last index fastest.  Indices are 0-based as in the code.        *)
(***************************************************************************)
Tensor3(np, nr, nc, data) == [npages |-> np, nrows |-> nr, ncols |-> nc, data |-> data]
Size3(T) == T.npages * T.nrows * T.ncols
Off3(T, p, r, c) == p * T.nrows * T.ncols + r * T.ncols + c
At3(T, p, r, c) == T.data[Off3(T, p, r, c) + 1]

\* ConstTensor3View::operator(): the index asserts of matpackIII.h
InRange3(T, p, r, c) == p < T.npages /\ r < T.nrows /\ c < T.ncols

\* vmr_field(isp, joker, joker, joker) of a Tensor4 with books of np x nr x nc
Book(V, isp) ==
  Tensor3(V.npages, V.nrows, V.ncols,
          SubSeq(V.data, isp * Size3(V) + 1, (isp + 1) * Size3(V)))
SetBook(V, isp, T) ==
  [V EXCEPT !.data = [k \in 1..Len(V.data) |->
     IF k > isp * Size3(V) /\ k <= (isp + 1) * Size3(V)
     THEN T.data[k - isp * Size3(V)] ELSE V.data[k]]]

\* flat( x, X ): the elements of X, page index fastest, column index slowest
flat(X) ==
  [k \in 1..Size3(X) |->
     At3(X, (k - 1) % X.npages, ((k - 1) \div X.npages) % X.nrows,
            (k - 1) \div (X.npages * X.nrows))]

\* reshape( X, x ): the inverse of flat for a tensor of np x nr x nc
reshape(np, nr, nc, xs) ==
  Tensor3(np, nr, nc,
          [k \in 1..(np * nr * nc) |->
             LET p == (k - 1) \div (nr * nc)
                 r == ((k - 1) \div nc) % nr
                 c == (k - 1) % nc
             IN xs[c * nr * np + r * np + p + 1]])

(***************************************************************************)
(* Grid positions: idx is the index of the grid point below, the           *)
(* fractional distance fd[0] is num/den with den > 0.                      *)
(***************************************************************************)
GridPos(idx, num, den) == [idx |-> idx, num |-> num, den |-> den]

\* gridpos( gp, old_grid, new_grid, extpolfac ) for one point xv of new_grid
gridpos1(old, xv) ==
  LET n == Len(old)
      asc == old[1] < old[2]
      Inside(i) == IF asc THEN old[i] <= xv /\ xv <= old[i + 1]
                          ELSE old[i] >= xv /\ xv >= old[i + 1]
      hits == { i \in 1..(n - 1) : Inside(i) }
      before == IF asc THEN xv < old[1] ELSE xv > old[1]
      i == IF hits # {} THEN CHOOSE j \in hits : \A h \in hits : h <= j
           ELSE IF before THEN 1 ELSE n - 1
      d == old[i + 1] - old[i]
  IN IF d > 0 THEN GridPos(i - 1, xv - old[i], d)
              ELSE GridPos(i - 1, old[i] - xv, 0 - d)

gridpos(old, new, extpolfac) == [k \in 1..Len(new) |-> gridpos1(old, new[k])]

\* the range gridpos accepts: the old grid, widened at both ends by extpolfac
\* times the distance of the end points to their neighbours
InsideGrid(old, new, extpolfac) ==
  \A k \in 1..Len(new) :
     LET g == gridpos1(old, new[k])
     IN g.num >= 0 - extpolfac * g.den /\ g.num <= g.den + extpolfac * g.den

\* pressures are powers of two times PRef; grid positions in pressure are
\* taken in log(p)
PRef == 900
RECURSIVE LogP(_)
LogP(pv) == IF pv <= PRef THEN 0 ELSE 1 + LogP(pv \div 2)
LogPGrid(gr) == [k \in 1..Len(gr) |-> LogP(gr[k])]
p2gridpos(old, new, extpolfac) == gridpos(LogPGrid(old), LogPGrid(new), extpolfac)

\* jacobian_type_extrapol: outside of the grid the end value is kept
jacobian_type_extrapol(gp) ==
  [k \in 1..Len(gp) |->
     IF gp[k].num < 0 THEN [gp[k] EXCEPT !.num = 0]
     ELSE IF gp[k].num > gp[k].den THEN [gp[k] EXCEPT !.num = gp[k].den]
     ELSE gp[k]]

\* gp4length1grid: all points sit on the only grid point
gp4length1grid(n) == [k \in 1..n |-> GridPos(0, 0, 1)]

\* regrid_atmfield_by_gp: linear interpolation of field_old to the points
\* gp_p x gp_lat x gp_lon; the result is n1 x 1 x 1, n1 x n2 x 1 or
\* n1 x n2 x n3 for atmosphere_dim 1, 2, 3
regrid_atmfield_by_gp(atmosphere_dim, old, gp_p, gp_lat, gp_lon) ==
  LET unit == <<GridPos(0, 0, 1)>>
      gl == IF atmosphere_dim >= 2 THEN gp_lat ELSE unit
      gn == IF atmosphere_dim >= 3 THEN gp_lon ELSE unit
      n1 == Len(gp_p)
      n2 == Len(gl)
      n3 == Len(gn)
      W(g, o) == IF o = 0 THEN g.den - g.num ELSE g.num
      Corner(a, b, c, op, or, oc) ==
        LET w == W(a, op) * W(b, or) * W(c, oc)
        IN IF w = 0 THEN 0 ELSE w * At3(old, a.idx + op, b.idx + or, c.idx + oc)
      Val(a, b, c) ==
        (Corner(a, b, c, 0, 0, 0) + Corner(a, b, c, 0, 0, 1)
         + Corner(a, b, c, 0, 1, 0) + Corner(a, b, c, 0, 1, 1)
         + Corner(a, b, c, 1, 0, 0) + Corner(a, b, c, 1, 0, 1)
         + Corner(a, b, c, 1, 1, 0) + Corner(a, b, c, 1, 1, 1))
        \div (a.den * b.den * c.den)
  IN Tensor3(n1, n2, n3,
       [k \in 1..(n1 * n2 * n3) |->
          Val(gp_p[(k - 1) \div (n2 * n3) + 1],
              gl[(((k - 1) \div n3) % n2) + 1],
              gn[((k - 1) % n3) + 1])])

\* number_density (atm_funcs.cc): p/t/BOLTZMAN_CONST, in units in which the
\* Boltzmann constant is 1
BOLTZMAN_CONST == 1
number_density(pv, tv) == (pv \div tv) \div BOLTZMAN_CONST

(***************************************************************************)
(* The result of a grid mapper: the grid positions, the direction, the     *)
(* extpolfac handed to gridpos per dimension (NoFactor where gridpos is    *)
(* not called) and whether gridpos accepts every point.                    *)
(***************************************************************************)
inf_proxy == 1000 * 1000       \* stands for 1.0e99
NoFactor == 0 - 1
NoGp == [dir |-> "none", gp_p |-> <<>>, gp_lat |-> <<>>, gp_lon |-> <<>>,
         n_p |-> 0, n_lat |-> 0, n_lon |-> 0,
         extpolfac |-> <<NoFactor, NoFactor, NoFactor>>, ok |-> TRUE]

\* a mapper to the retrieval grids that extrapolates without limit
get_gp_atmgrids_to_rq_inf(rq, atmosphere_dim, p_grid, lat_grid, lon_grid) ==
  [dir |-> "atm2rq",
   gp_p |-> p2gridpos(p_grid, rq.Grids[1], inf_proxy),
   gp_lat |-> IF atmosphere_dim >= 2 THEN gridpos(lat_grid, rq.Grids[2], inf_proxy) ELSE <<>>,
   gp_lon |-> IF atmosphere_dim >= 3 THEN gridpos(lon_grid, rq.Grids[3], inf_proxy) ELSE <<>>,
   n_p |-> 0, n_lat |-> 0, n_lon |-> 0,
   extpolfac |-> <<inf_proxy, IF atmosphere_dim >= 2 THEN inf_proxy ELSE NoFactor,
                   IF atmosphere_dim >= 3 THEN inf_proxy ELSE NoFactor>>,
   ok |-> /\ InsideGrid(LogPGrid(p_grid), LogPGrid(rq.Grids[1]), inf_proxy)
          /\ atmosphere_dim >= 2 => InsideGrid(lat_grid, rq.Grids[2], inf_proxy)
          /\ atmosphere_dim >= 3 => InsideGrid(lon_grid, rq.Grids[3], inf_proxy)]

(***************************************************************************)
(* get_gp_atmgrids_to_rq: grid positions of the retrieval grids in the     *)
(* atmospheric grids, extpolfac = 0; gp_lat and gp_lon get length 0 for    *)
(* the dimensions that are not active.                                     *)
(***************************************************************************)
get_gp_atmgrids_to_rq(rq, atmosphere_dim, p_grid, lat_grid, lon_grid) ==
  [dir |-> "atm2rq",
   gp_p |-> p2gridpos(p_grid, rq.Grids[1], 0),
   gp_lat |-> IF atmosphere_dim >= 2 THEN gridpos(lat_grid, rq.Grids[2], 0) ELSE <<>>,
   gp_lon |-> IF atmosphere_dim >= 3 THEN gridpos(lon_grid, rq.Grids[3], 0) ELSE <<>>,
   n_p |-> 0, n_lat |-> 0, n_lon |-> 0,
   extpolfac |-> <<0, IF atmosphere_dim >= 2 THEN 0 ELSE NoFactor,
                   IF atmosphere_dim >= 3 THEN 0 ELSE NoFactor>>,
   ok |-> /\ InsideGrid(LogPGrid(p_grid), LogPGrid(rq.Grids[1]), 0)
          /\ atmosphere_dim >= 2 => InsideGrid(lat_grid, rq.Grids[2], 0)
          /\ atmosphere_dim >= 3 => InsideGrid(lon_grid, rq.Grids[3], 0)]

\* a test that sends a retrieval grid of two points to gp4length1grid as well
UsesGridposFromThree(n) == n > 2

\* get_gp_rq_to_atmgrids, lines 242, 254, 272: "if( n_p > 1 )", and the same
\* for n_lat and n_lon: the grids that go to gridpos
UsesGridpos(n) == n > 1

(***************************************************************************)
(* get_gp_rq_to_atmgrids: grid positions of the atmospheric grids in the   *)
(* retrieval grids, extrapolated without limit; n_p, n_lat, n_lon are the  *)
(* lengths of the retrieval grids, 1 for a dimension that is not active.   *)
(* A retrieval grid of length 1 goes to gp4length1grid, not to gridpos.    *)
(***************************************************************************)
get_gp_rq_to_atmgrids(rq, atmosphere_dim, p_grid, lat_grid, lon_grid) ==
  LET general_p == UsesGridpos(Len(rq.Grids[1]))
      general_lat == atmosphere_dim >= 2 /\ UsesGridpos(Len(rq.Grids[2]))
      general_lon == atmosphere_dim >= 3 /\ UsesGridpos(Len(rq.Grids[3]))
  IN
  [dir |-> "rq2atm",
   gp_p |-> IF general_p
            THEN jacobian_type_extrapol(p2gridpos(rq.Grids[1], p_grid, inf_proxy))
            ELSE gp4length1grid(Len(p_grid)),
   n_p |-> Len(rq.Grids[1]),
   gp_lat |-> IF atmosphere_dim >= 2
              THEN IF general_lat
                   THEN jacobian_type_extrapol(gridpos(rq.Grids[2], lat_grid, inf_proxy))
                   ELSE gp4length1grid(Len(lat_grid))
              ELSE <<>>,
   n_lat |-> IF atmosphere_dim >= 2 THEN Len(rq.Grids[2]) ELSE 1,
   gp_lon |-> IF atmosphere_dim >= 3
              THEN IF general_lon
                   THEN jacobian_type_extrapol(gridpos(rq.Grids[3], lon_grid, inf_proxy))
                   ELSE gp4length1grid(Len(lon_grid))
              ELSE <<>>,
   n_lon |-> IF atmosphere_dim >= 3 THEN Len(rq.Grids[3]) ELSE 1,
   extpolfac |-> <<IF general_p THEN inf_proxy ELSE NoFactor,
                   IF general_lat THEN inf_proxy ELSE NoFactor,
                   IF general_lon THEN inf_proxy ELSE NoFactor>>,
   ok |-> /\ general_p => InsideGrid(LogPGrid(rq.Grids[1]), LogPGrid(p_grid), inf_proxy)
          /\ general_lat => InsideGrid(rq.Grids[2], lat_grid, inf_proxy)
          /\ general_lon => InsideGrid(rq.Grids[3], lon_grid, inf_proxy)]

(***************************************************************************)
(* The atmosphere: grids, fields and species.  A build with the asserts    *)
(* of matpack ("debug") stops at the first index out of range; a build     *)
(* without them ("release") reads and writes the buffer at the offset the  *)
(* indices give: inside the buffer that is another element, beyond it the  *)
(* read gives some value (garbage) and the write hits foreign memory.      *)
(***************************************************************************)
abs_species == <<"H2O", "O3">>
\* chk_contains: 0-based position of the species, -1 stands for the throw
chk_contains(tag) ==
  IF \E i \in 1..Len(abs_species) : abs_species[i] = tag
  THEN (CHOOSE i \in 1..Len(abs_species) : abs_species[i] = tag) - 1
  ELSE 0 - 1

Atmosphere(dim) ==
  LET nr == IF dim >= 2 THEN 2 ELSE 1
      nc == IF dim >= 3 THEN 2 ELSE 1
      tv == <<1, 2, 3, 4, 5, 6, 9, 10, 12, 15, 18, 20>>
  IN [atmosphere_dim |-> dim,
      p_grid |-> <<3600, 1800, 900>>,
      lat_grid |-> IF dim >= 2 THEN <<0, 10>> ELSE <<>>,
      lon_grid |-> IF dim >= 3 THEN <<0, 10>> ELSE <<>>,
      t_field |-> Tensor3(3, nr, nc, [k \in 1..(3 * nr * nc) |-> tv[k]]),
      vmr_field |-> [nbooks |-> 2, npages |-> 3, nrows |-> nr, ncols |-> nc,
                     data |-> [k \in 1..(2 * 3 * nr * nc) |-> 2 * k]]]

\* the same atmosphere with other contents of the fields
Reverse(sq) == [k \in 1..Len(sq) |-> sq[Len(sq) + 1 - k]]
AtmosphereV(dim, fv) ==
  IF fv = 1 THEN Atmosphere(dim)
  ELSE [Atmosphere(dim) EXCEPT !.t_field.data = Reverse(@),
                               !.vmr_field.data = Reverse(@)]

\* the running result of setup_xa or x2arts_std; gp is what the grid mapper
\* gave at its last call
Run(xav, t, vmr, status, oob, heap) ==
  [xa |-> xav, t_field |-> t, vmr_field |-> vmr, status |-> status,
   oob |-> oob, heap |-> heap, gp |-> NoGp, ji_oob |-> FALSE]

\* an element read at a buffer offset, garbage beyond the buffer
Raw(data, off, g) == IF off < Len(data) THEN data[off + 1] ELSE g

(***************************************************************************)
(* setup_xa, lines 383-391: the loop of mode "nd" from step k on; it runs  *)
(* i3, i2, i1 up to and including ncols, nrows, npages of vmr_x, and i     *)
(* counts the steps.                                                       *)
(***************************************************************************)
RECURSIVE NdLoopXa(_, _, _, _, _, _, _, _)
NdLoopXa(k, r, vmr_x, t_x, pg, lo, g, build) ==
  LET n1 == vmr_x.npages + 1
      n2 == vmr_x.nrows + 1
      n3 == vmr_x.ncols + 1
      i1 == k % n1
      i2 == (k \div n1) % n2
      i3 == k \div (n1 * n2)
      in == InRange3(vmr_x, i1, i2, i3) /\ lo + k < Len(r.xa)
      off == Off3(vmr_x, i1, i2, i3)
      v == Raw(vmr_x.data, off, g) * number_density(Raw(pg, i1, g), Raw(t_x.data, off, g))
  IN IF k >= n1 * n2 * n3 THEN r
     ELSE IF in
       THEN NdLoopXa(k + 1, [r EXCEPT !.xa[lo + k + 1] = v], vmr_x, t_x, pg, lo, g, build)
     ELSE IF build = "debug" THEN [r EXCEPT !.status = "assert", !.oob = TRUE]
     ELSE IF lo + k < Len(r.xa)
       THEN NdLoopXa(k + 1, [r EXCEPT !.xa[lo + k + 1] = v, !.oob = TRUE],
                     vmr_x, t_x, pg, lo, g, build)
     ELSE NdLoopXa(k + 1, [r EXCEPT !.oob = TRUE, !.heap = TRUE],
                   vmr_x, t_x, pg, lo, g, build)

\* xa[ind] = vals
SetRange(xav, lo, vals) ==
  [k \in 1..Len(xav) |-> IF k > lo /\ k <= lo + Len(vals) THEN vals[k - lo] ELSE xav[k]]

\* a "rel" branch whose range is one element too long
SetupXaRelLong(r, lo, np) == [r EXCEPT !.xa = SetRange(r.xa, lo, Fill(np + 1, 1))]

\* setup_xa, line 355: xa[ind] = 1
SetupXaRel(r, lo, np) == [r EXCEPT !.xa = SetRange(r.xa, lo, Fill(np, 1))]

\* a flat that leaves the last element of the range as it was
SetupXaFlatShort(r, lo, X) ==
  [r EXCEPT !.xa = SetRange(r.xa, lo, SubSeq(flat(X), 1, Size3(X) - 1))]

\* setup_xa, lines 341 and 366: flat( xa[ind], t_x ) and flat( xa[ind], vmr_x )
SetupXaFlat(r, lo, X) == [r EXCEPT !.xa = SetRange(r.xa, lo, flat(X))]

(***************************************************************************)
(* setup_xa, lines 325-403: the body of the loop for quantity q (1-based   *)
(* here), applied to the running result r.                                 *)
(***************************************************************************)
setup_xa_quantity(r, jq, ji, q, atm, g, build) ==
  LET lo == ji[q][1]
      np == ji[q][2] - ji[q][1] + 1
      gp == get_gp_atmgrids_to_rq(jq[q], atm.atmosphere_dim, atm.p_grid,
                                  atm.lat_grid, atm.lon_grid)
      isp == chk_contains(jq[q].Subtag)
      t_x == regrid_atmfield_by_gp(atm.atmosphere_dim, r.t_field,
                                   gp.gp_p, gp.gp_lat, gp.gp_lon)
      vmr_x == regrid_atmfield_by_gp(atm.atmosphere_dim, Book(r.vmr_field, isp),
                                     gp.gp_p, gp.gp_lat, gp.gp_lon)
      rg == [r EXCEPT !.gp = gp]
      rejected == [rg EXCEPT !.status = "throw"]
  IN IF jq[q].MainTag = TEMPERATURE_MAINTAG
       THEN IF ~gp.ok THEN rejected
            ELSE SetupXaFlat(rg, lo, t_x)
     ELSE IF jq[q].MainTag = ABSSPECIES_MAINTAG
       THEN IF isp < 0 THEN [r EXCEPT !.status = "throw"]
            ELSE IF jq[q].Mode = "rel"
              THEN SetupXaRel(r, lo, np)
            ELSE IF jq[q].Mode = "vmr"
              THEN IF ~gp.ok THEN rejected
                   ELSE SetupXaFlat(rg, lo, vmr_x)
            ELSE IF jq[q].Mode = "nd"
              THEN IF ~gp.ok THEN rejected
                   ELSE NdLoopXa(0, rg, vmr_x, t_x, jq[q].Grids[1], lo, g, build)
            ELSE IF build = "debug" THEN [r EXCEPT !.status = "assert"]
            ELSE r
     ELSE [r EXCEPT !.status = "throw"]

\* setup_xa, lines 319-404: xa is sized, then the quantities are taken in
\* order until one of them ends the call
RECURSIVE setup_xa_from(_, _, _, _, _, _, _)
setup_xa_from(q, r, jq, ji, atm, g, build) ==
  IF q > Len(jq) \/ r.status # "ok" THEN r
  ELSE setup_xa_from(q + 1, setup_xa_quantity(r, jq, ji, q, atm, g, build),
                     jq, ji, atm, g, build)

setup_xa(jq, ji, atm, g, build) ==
  setup_xa_from(1, Run(Fill(ji[Len(jq)][2] + 1, NaN), atm.t_field, atm.vmr_field,
                       "ok", FALSE, FALSE),
                jq, ji, atm, g, build)

(***************************************************************************)
(* x2arts_std, lines 487-492 and 514-520: the loops of the modes "rel"     *)
(* and "nd" from step k on; they run i3, i2, i1 up to and including        *)
(* ncols, nrows, npages of vmr_field.  src is factor or nd.                *)
(***************************************************************************)
RECURSIVE FieldLoop(_, _, _, _, _, _, _, _)
FieldLoop(k, r, mode, isp, src, pg, g, build) ==
  LET V == r.vmr_field
      n1 == V.npages + 1
      n2 == V.nrows + 1
      n3 == V.ncols + 1
      i1 == k % n1
      i2 == (k \div n1) % n2
      i3 == k \div (n1 * n2)
      in == InRange3(V, i1, i2, i3)
      off == Off3(V, i1, i2, i3)
      off4 == isp * Size3(V) + off
      v == IF mode = "rel"
           THEN Raw(V.data, off4, g) * Raw(src.data, off, g)
           ELSE Raw(src.data, off, g)
                  \div number_density(Raw(pg, i1, g), Raw(r.t_field.data, off, g))
  IN IF k >= n1 * n2 * n3 THEN r
     ELSE IF in
       THEN FieldLoop(k + 1, [r EXCEPT !.vmr_field.data[off4 + 1] = v],
                      mode, isp, src, pg, g, build)
     ELSE IF build = "debug" THEN [r EXCEPT !.status = "assert", !.oob = TRUE]
     ELSE IF off4 < Len(V.data)
       THEN FieldLoop(k + 1, [r EXCEPT !.vmr_field.data[off4 + 1] = v, !.oob = TRUE],
                      mode, isp, src, pg, g, build)
     ELSE FieldLoop(k + 1, [r EXCEPT !.oob = TRUE, !.heap = TRUE],
                    mode, isp, src, pg, g, build)

\* a "vmr" branch that scales the field instead of replacing it
X2artsVmrScaled(r, isp, vmr) ==
  [r EXCEPT !.vmr_field = SetBook(r.vmr_field, isp,
      [vmr EXCEPT !.data = [k \in 1..Len(vmr.data) |->
                              Book(r.vmr_field, isp).data[k] * vmr.data[k]]])]

\* x2arts_std, line 503
X2artsVmr(r, isp, vmr) == [r EXCEPT !.vmr_field = SetBook(r.vmr_field, isp, vmr)]

\* x2arts_std, line 460
X2artsT(r, t) == [r EXCEPT !.t_field = t]

(***************************************************************************)
(* x2arts_std, lines 438-532: the body of the loop for quantity q.         *)
(***************************************************************************)
x2arts_std_quantity(r, jq, ji, xs, q, atm, g, build) ==
  LET lo == ji[q][1]
      np == ji[q][2] - ji[q][1] + 1
      gp == get_gp_rq_to_atmgrids(jq[q], atm.atmosphere_dim, atm.p_grid,
                                  atm.lat_grid, atm.lon_grid)
      isp == chk_contains(jq[q].Subtag)
      x_q == reshape(gp.n_p, gp.n_lat, gp.n_lon, SubSeq(xs, lo + 1, lo + np))
      new == regrid_atmfield_by_gp(atm.atmosphere_dim, x_q, gp.gp_p, gp.gp_lat, gp.gp_lon)
      rg == [r EXCEPT !.gp = gp]
  IN IF jq[q].MainTag = TEMPERATURE_MAINTAG THEN X2artsT(rg, new)
     ELSE IF jq[q].MainTag = ABSSPECIES_MAINTAG
       THEN IF isp < 0 THEN [r EXCEPT !.status = "throw"]
            ELSE IF jq[q].Mode = "rel"
              THEN FieldLoop(0, rg, "rel", isp, new, atm.p_grid, g, build)
            ELSE IF jq[q].Mode = "vmr" THEN X2artsVmr(rg, isp, new)
            ELSE IF jq[q].Mode = "nd"
              THEN FieldLoop(0, rg, "nd", isp, new, atm.p_grid, g, build)
            ELSE IF build = "debug" THEN [rg EXCEPT !.status = "assert"]
            ELSE rg
     ELSE [r EXCEPT !.status = "throw"]

\* a check that lets a longer x pass
x2arts_std_check_min(jq, ji, xs) == Len(xs) >= ji[Len(jq)][2] + 1

\* x2arts_std, lines 430-432: the check of the length of x
x2arts_std_check(jq, ji, xs) == Len(xs) = ji[Len(jq)][2] + 1

(***************************************************************************)
(* The calls of oem that are tried.  BaseArgs are calls that pass every    *)
(* check; Deviations(a) changes one argument of such a call.               *)
(***************************************************************************)
YLen == 2                    \* length of the measurement vector y
Methods == {"li", "gn", "lm", "ml"}
MaxStartCost == 1            \* the positive max_start_cost that is tried

\* the retrieval grids of a quantity: all of the atmospheric grid, its end
\* points in pressure, a pressure grid that ends above the lowest pressure
\* of the atmosphere ("narrow"), one that starts at a higher pressure than
\* the atmosphere has ("wide"), or one point per dimension
RetrievalGrids(dim, opt) ==
  LET a == Atmosphere(dim)
      one(gr) == IF Len(gr) = 0 THEN <<>> ELSE <<gr[Len(gr)]>>
  IN IF opt = "same" THEN <<a.p_grid, a.lat_grid, a.lon_grid>>
     ELSE IF opt = "coarse" THEN <<<<3600, 900>>, one(a.lat_grid), a.lon_grid>>
     ELSE IF opt = "narrow" THEN <<<<3600, 1800>>, a.lat_grid, one(a.lon_grid)>>
     ELSE IF opt = "wide" THEN <<<<7200, 900>>, a.lat_grid, a.lon_grid>>
     ELSE <<<<1800>>, one(a.lat_grid), one(a.lon_grid)>>

\* jacobian_indices for a list of quantities: consecutive ranges, each as long
\* as the product of the quantity's grid lengths in the active dimensions
BlockLen(rq, dim) ==
  Len(rq.Grids[1]) * (IF dim >= 2 THEN Len(rq.Grids[2]) ELSE 1)
                   * (IF dim >= 3 THEN Len(rq.Grids[3]) ELSE 1)
RECURSIVE IndicesFrom(_, _, _, _)
IndicesFrom(jq, dim, q, lo) ==
  IF q > Len(jq) THEN <<>>
  ELSE <<<<lo, lo + BlockLen(jq[q], dim) - 1>>>>
         \o IndicesFrom(jq, dim, q + 1, lo + BlockLen(jq[q], dim))
Indices(jq, dim) == IndicesFrom(jq, dim, 1, 0)

OemQuantities ==
  { <<RQ(TEMPERATURE_MAINTAG, "", "abs", RetrievalGrids(1, "coarse"))>>,
    <<RQ(TEMPERATURE_MAINTAG, "", "abs", RetrievalGrids(1, "same")),
      RQ(ABSSPECIES_MAINTAG, "H2O", "rel", RetrievalGrids(1, "single"))>> }

Layouts ==
  { [jq |-> l, ji |-> Indices(l, 1), n |-> Indices(l, 1)[Len(l)][2] + 1] :
      l \in OemQuantities }

BaseArgs ==
  { [forward |-> "opaque",
     jacobian_do |-> 1,
     jacobian_quantities |-> l.jq,
     jacobian_indices |-> l.ji,
     covmat_sx_inv |-> [nrows |-> l.n, ncols |-> l.n],
     covmat_so_inv |-> [nrows |-> YLen, ncols |-> YLen],
     y |-> [nelem |-> YLen],
     method |-> me,
     x_norm |-> <<>>,
     max_iter |-> mi,
     stop_dx |-> 1,
     ml_ga_settings |-> Fill(6, 1),
     clear_matrices |-> cm,
     display_progress |-> dp,
     max_start_cost |-> msc] :
       l \in Layouts, me \in Methods, mi \in 1..MaxIter,
       cm \in {0, 1}, dp \in {0, 1}, msc \in {0, MaxStartCost} }

Deviations(a) ==
  LET n == a.covmat_sx_inv.nrows
      nq == Len(a.jacobian_indices)
  IN { [a EXCEPT !.jacobian_do = 0],
       [a EXCEPT !.jacobian_quantities = <<>>],
       [a EXCEPT !.covmat_sx_inv = [nrows |-> n, ncols |-> n + 1]],
       [a EXCEPT !.covmat_sx_inv = [nrows |-> n - 1, ncols |-> n - 1]],
       [a EXCEPT !.covmat_so_inv = [nrows |-> YLen, ncols |-> YLen + 1]],
       [a EXCEPT !.covmat_so_inv = [nrows |-> YLen + 1, ncols |-> YLen + 1]],
       [a EXCEPT !.jacobian_indices = SubSeq(a.jacobian_indices, 1, nq - 1)],
       [a EXCEPT !.jacobian_indices = Append(a.jacobian_indices, <<n, n>>)],
       [a EXCEPT !.method = "nl"],
       [a EXCEPT !.x_norm = Fill(n, 1)],
       [a EXCEPT !.x_norm = Fill(n + 1, 1)],
       [a EXCEPT !.x_norm = [Fill(n, 1) EXCEPT ![n] = 0]],
       [a EXCEPT !.max_iter = 0],
       [a EXCEPT !.stop_dx = 0],
       [a EXCEPT !.ml_ga_settings = <<>>],
       [a EXCEPT !.ml_ga_settings = Fill(5, 1)],
       [a EXCEPT !.ml_ga_settings = [Fill(6, 1) EXCEPT ![6] = 0 - 1]],
       [a EXCEPT !.clear_matrices = 2],
       [a EXCEPT !.display_progress = 0 - 1] }

OemArgs == BaseArgs \cup UNION { Deviations(a) : a \in BaseArgs }

(***************************************************************************)
(* Calls of oem with a forward model that is known: the identity, y = x,   *)
(* with covmat_so_inv = I and covmat_sx_inv = sx * I, for one temperature  *)
(* quantity on the grid of the atmosphere.  Temperatures, measurements and *)
(* x are kept in units of 1/FixScale, costs and norms in units of          *)
(* 1/FixScale^2.                                                           *)
(***************************************************************************)
FixScale == 2 * 2
LinXa == <<250 * FixScale, 260 * FixScale, 270 * FixScale>>
LinY == { <<251 * FixScale, 259 * FixScale, 272 * FixScale>>,
          <<250 * FixScale, 260 * FixScale, 270 * FixScale>>,
          <<252 * FixScale, 260 * FixScale, 270 * FixScale>>,
          <<246 * FixScale, 264 * FixScale, 278 * FixScale>> }
LinearArgs ==
  { [forward |-> "identity",
     t_field |-> LinXa,
     sx |-> sx,
     jacobian_do |-> 1,
     jacobian_quantities |-> <<RQ(TEMPERATURE_MAINTAG, "", "abs", RetrievalGrids(1, "same"))>>,
     jacobian_indices |-> <<<<0, 2>>>>,
     covmat_sx_inv |-> [nrows |-> 3, ncols |-> 3],
     covmat_so_inv |-> [nrows |-> 3, ncols |-> 3],
     y |-> [nelem |-> 3, data |-> yv],
     method |-> "gn",
     x_norm |-> <<>>,
     max_iter |-> mi,
     stop_dx |-> tol,
     ml_ga_settings |-> <<>>,
     clear_matrices |-> cm,
     display_progress |-> dp,
     max_start_cost |-> 0] :
       sx \in {1, 3}, yv \in LinY, mi \in 1..(MaxIter + 1),
       tol \in {1, FixScale * FixScale}, cm \in {0, 1}, dp \in {0, 1} }

\* the atmosphere oem is called in
OemAtmosphere(a) ==
  IF a.forward = "opaque" THEN Atmosphere(1)
  ELSE [Atmosphere(1) EXCEPT !.t_field.data = a.t_field]

\* sum of w * (u[i] - v[i])^2
RECURSIVE SqDist(_, _, _)
SqDist(u, v, w) ==
  IF Len(u) = 0 THEN 0
  ELSE w * (u[1] - v[1]) * (u[1] - v[1]) + SqDist(Tail(u), Tail(v), w)

(***************************************************************************)
(* The checks at the head of oem, in the order of the code.  The value is  *)
(* the check that throws, "" when all pass.                                *)
(***************************************************************************)
CheckInputsNoStopDx(a) ==
  LET n == a.covmat_sx_inv.nrows
      m == a.y.nelem
      nq == Len(a.jacobian_quantities)
  IN IF a.jacobian_do = 0 THEN "jacobian_do"
     ELSE IF nq = 0 THEN "empty jacobian_quantities"
     ELSE IF a.covmat_sx_inv.ncols # n THEN "covmat_sx_inv not square"
     ELSE IF a.covmat_so_inv.ncols # a.covmat_so_inv.nrows THEN "covmat_so_inv not square"
     ELSE IF a.covmat_so_inv.ncols # m THEN "y and covmat_so_inv"
     ELSE IF Len(a.jacobian_indices) # nq THEN "jacobian_indices count"
     ELSE IF a.jacobian_indices[nq][2] + 1 # n THEN "covmat_sx_inv and jacobian_indices"
     ELSE IF a.method \notin {"li", "gn", "ml", "lm"} THEN "method"
     ELSE IF ~(Len(a.x_norm) = 0 \/ Len(a.x_norm) = n) THEN "x_norm length"
     ELSE IF Len(a.x_norm) > 0 /\ SeqMin(a.x_norm) <= 0 THEN "x_norm values"
     ELSE IF a.max_iter <= 0 THEN "max_iter"
     ELSE IF a.method = "ml" /\ Len(a.ml_ga_settings) # 6 THEN "ml_ga_settings length"
     ELSE IF a.method = "ml" /\ SeqMin(a.ml_ga_settings) < 0 THEN "ml_ga_settings values"
     ELSE IF a.clear_matrices < 0 \/ a.clear_matrices > 1 THEN "clear_matrices"
     ELSE IF a.display_progress < 0 \/ a.display_progress > 1 THEN "display_progress"
     ELSE ""

CheckInputs(a) ==
  LET n == a.covmat_sx_inv.nrows
      m == a.y.nelem
      nq == Len(a.jacobian_quantities)
  IN IF a.jacobian_do = 0 THEN "jacobian_do"
     ELSE IF nq = 0 THEN "empty jacobian_quantities"
     ELSE IF a.covmat_sx_inv.ncols # n THEN "covmat_sx_inv not square"
     ELSE IF a.covmat_so_inv.ncols # a.covmat_so_inv.nrows THEN "covmat_so_inv not square"
     ELSE IF a.covmat_so_inv.ncols # m THEN "y and covmat_so_inv"
     ELSE IF Len(a.jacobian_indices) # nq THEN "jacobian_indices count"
     ELSE IF a.jacobian_indices[nq][2] + 1 # n THEN "covmat_sx_inv and jacobian_indices"
     ELSE IF a.method \notin {"li", "gn", "ml", "lm"} THEN "method"
     ELSE IF ~(Len(a.x_norm) = 0 \/ Len(a.x_norm) = n) THEN "x_norm length"
     ELSE IF Len(a.x_norm) > 0 /\ SeqMin(a.x_norm) <= 0 THEN "x_norm values"
     ELSE IF a.max_iter <= 0 THEN "max_iter"
     ELSE IF a.stop_dx <= 0 THEN "stop_dx"
     ELSE IF a.method = "ml" /\ Len(a.ml_ga_settings) # 6 THEN "ml_ga_settings length"
     ELSE IF a.method = "ml" /\ SeqMin(a.ml_ga_settings) < 0 THEN "ml_ga_settings values"
     ELSE IF a.clear_matrices < 0 \/ a.clear_matrices > 1 THEN "clear_matrices"
     ELSE IF a.display_progress < 0 \/ a.display_progress > 1 THEN "display_progress"
     ELSE ""

(***************************************************************************)
(* oem, lines 571-619: the checks.  A failing check throws before any      *)
(* output is touched.                                                      *)
(***************************************************************************)
Validate ==
  /\ pc = "call"
  /\ error' = CheckInputs(args)
  /\ pc' = IF error' = "" THEN "checked" ELSE "thrown"
  /\ UNCHANGED <<batchvars, codecvars, args, outputs, cost_start, sol, nJacCalls, nFwdCalls, gammaTrace>>

(***************************************************************************)
(* oem, lines 622-628: xa is built by setup_xa and the agenda is executed  *)
(* at xa with the Jacobian flag 1.  Where the forward model is opaque the   *)
(* data cost of the yf it returns is any value of 0..MaxCost; the identity *)
(* returns yf = xa.  The quantities of the calls tried are temperature and *)
(* "rel" quantities of a 1D atmosphere.                                    *)
(***************************************************************************)
APriori ==
  /\ pc = "checked"
  /\ LET n == args.covmat_sx_inv.nrows
         m == args.y.nelem
         nq == Len(args.jacobian_quantities)
     IN /\ xa' = setup_xa(args.jacobian_quantities, args.jacobian_indices,
                          OemAtmosphere(args), 1, "debug").xa
        /\ IF args.forward = "opaque"
           THEN \E c \in 0..MaxCost : yf' = Meas("set", m, c)
           ELSE yf' = Meas("set", m, SqDist(args.y.data, xa', 1) \div m)
        /\ jacobian' = Mat("set", m, n)
  /\ nJacCalls' = nJacCalls + 1
  /\ pc' = "evaluated"
  /\ UNCHANGED <<batchvars, codecvars, args, error, x, dxdy, oem_diagnostics, ml_ga_history,
                 cost_start, sol, nFwdCalls, gammaTrace>>

\* oem_cost_y (oem.cc): the data term of the cost for the current yf
oem_cost_y(yfv) == yfv.cost_y

\* oem, lines 635-641
HistoryInit(a) == IF a.method = "ml" THEN Fill(a.max_iter, NaN) ELSE <<>>

\* oem, lines 645-651
CostStart(a, yfv) ==
  IF a.method = "ml" \/ a.method = "lm" \/ a.display_progress # 0
     \/ a.max_start_cost > 0
  THEN oem_cost_y(yfv) ELSE NaN

\* a guard whose limit is one too high
TooHighStartCostSlack(a, c) == a.max_start_cost > 0 /\ Gt(c, a.max_start_cost + 1)

\* oem, line 656
TooHighStartCost(a, c) == a.max_start_cost > 0 /\ Gt(c, a.max_start_cost)

\* a guard path that also reports 0 used iterations
GuardDiagnosticsNoIter(d) == [d EXCEPT ![1] = HIGH_START_COST, ![5] = 0]

\* oem, line 659: the guard path flags "no inversion"
GuardDiagnostics(d) == [d EXCEPT ![1] = HIGH_START_COST]

(***************************************************************************)
(* oem, lines 630-675: diagnostics are sized and filled with NaN, the      *)
(* start cost is taken and the start-cost guard decides between the        *)
(* return with code 99 and the sizing of x and dxdy for the solver.        *)
(***************************************************************************)
StartCost ==
  /\ pc = "evaluated"
  /\ LET c == CostStart(args, yf)
         d == [Fill(5, NaN) EXCEPT ![2] = c]
         n == args.covmat_sx_inv.nrows
         m == args.y.nelem
     IN /\ cost_start' = c
        /\ ml_ga_history' = HistoryInit(args)
        /\ IF TooHighStartCost(args, c)
           THEN /\ oem_diagnostics' = GuardDiagnostics(d)
                /\ pc' = "done"
                /\ UNCHANGED <<x, dxdy, sol>>
           ELSE /\ oem_diagnostics' = d
                /\ x' = Vec("sized", n, NaN)
                /\ dxdy' = Mat("sized", n, m)
                /\ sol' = [NoSol EXCEPT !.gamma = gamma_start * GammaScale,
                                        !.cost = c, !.called = TRUE]
                /\ pc' = IF args.method \in {"lm", "ml"} THEN "lm" ELSE args.method
  /\ UNCHANGED <<batchvars, codecvars, args, error, xa, yf, jacobian, nJacCalls, nFwdCalls, gammaTrace>>

(***************************************************************************)
(* The solvers of oem.cc, as section 4.5 of the specification describes    *)
(* them.  A state estimate is kept by its identity: 0 is xa, k is the      *)
(* estimate after the k-th accepted update.  Costs come from the opaque    *)
(* forward model: any pair (cost_y, cost_x) with a sum of at most MaxCost. *)
(***************************************************************************)
CostPairs == { c \in (0..MaxCost) \X (0..MaxCost) : c[1] + c[2] <= MaxCost }

\* oem_linear_nform: one solve with the Jacobian of xa, no forward-model call
oem_linear_nform ==
  /\ pc = "li"
  /\ \E c \in CostPairs, r \in {CONVERGED, NUMERIC_FAILURE} :
       /\ sol' = [sol EXCEPT !.cost_y = c[1], !.cost_x = c[2],
                             !.cost = c[1] + c[2], !.ret = r]
       /\ x' = Vec("set", x.nelem, 1)
       /\ dxdy' = [dxdy EXCEPT !.st = "set"]
  /\ pc' = "return"
  /\ UNCHANGED <<batchvars, codecvars, args, error, xa, yf, jacobian, oem_diagnostics, ml_ga_history,
                 cost_start, nJacCalls, nFwdCalls, gammaTrace>>

\* the Gauss-Newton update for the identity forward model with
\* covmat_so_inv = I and covmat_sx_inv = sx * I: xa + (y - xa) / (sx + 1),
\* whatever the current x
GaussNewtonStep(a, xav) ==
  [i \in 1..Len(xav) |-> xav[i] + (a.y.data[i] - xav[i]) \div (a.sx + 1)]

\* the convergence test of the iterative solvers: the update dx = xn - xo,
\* weighted with covmat_sx_inv and normalised by the length of x, is below
\* stop_dx
UpdateBelowStopDx(a, xo, xn) == SqDist(xn, xo, a.sx) < a.stop_dx * Len(xn)

\* oem_gauss_newton: one iteration: solve, update x, evaluate (yf, J) at the
\* new x, take the cost; stop on convergence or when max_iter is used up.
\* For the opaque forward model costs and convergence are any; for the
\* identity x.id holds the elements of x.
oem_gauss_newton ==
  /\ pc = "gn"
  /\ IF args.forward = "opaque"
     THEN \E c \in CostPairs, conv \in BOOLEAN :
       LET it == sol.used_iter + 1
           stop == conv \/ it >= args.max_iter
       IN /\ sol' = [sol EXCEPT !.used_iter = it, !.cost_y = c[1], !.cost_x = c[2],
                                !.cost = c[1] + c[2],
                                !.ret = IF conv THEN CONVERGED
                                        ELSE IF stop THEN MAX_ITER ELSE NaN]
          /\ x' = Vec("set", x.nelem, it)
          /\ yf' = Meas("set", yf.nelem, c[1])
          /\ dxdy' = [dxdy EXCEPT !.st = "set"]
          /\ pc' = IF stop THEN "return" ELSE "gn"
     ELSE
       LET it == sol.used_iter + 1
           xo == IF x.st = "sized" THEN xa ELSE x.id
           xn == GaussNewtonStep(args, xa)
           conv == UpdateBelowStopDx(args, xo, xn)
           stop == conv \/ it >= args.max_iter
           cy == SqDist(args.y.data, xn, 1) \div yf.nelem
           cx == SqDist(xn, xa, args.sx) \div yf.nelem
       IN /\ sol' = [sol EXCEPT !.used_iter = it, !.cost_y = cy, !.cost_x = cx,
                                !.cost = cy + cx,
                                !.ret = IF conv THEN CONVERGED
                                        ELSE IF stop THEN MAX_ITER ELSE NaN]
          /\ x' = Vec("set", x.nelem, xn)
          /\ yf' = Meas("set", yf.nelem, cy)
          /\ dxdy' = [dxdy EXCEPT !.st = "set"]
          /\ pc' = IF stop THEN "return" ELSE "gn"
  /\ nJacCalls' = nJacCalls + 1
  /\ UNCHANGED <<batchvars, codecvars, args, error, xa, jacobian, oem_diagnostics, ml_ga_history,
                 cost_start, nFwdCalls, gammaTrace>>

\* gamma after an accepted step: divided by the decrease factor, 0 below the
\* threshold
GammaDecrease(g) ==
  IF g >= gamma_threshold * gamma_decrease * GammaScale
  THEN g \div gamma_decrease ELSE 0

\* gamma after a rejected step: multiplied by the increase factor, at most
\* gamma_max
GammaIncrease(g) ==
  IF g < gamma_threshold * GammaScale THEN gamma_threshold * GammaScale
  ELSE IF g * gamma_increase > gamma_max * GammaScale THEN gamma_max * GammaScale
  ELSE g * gamma_increase

\* oem_levenberg_marquardt: one trial step with the current gamma.  The cost
\* at the trial state (sol.trial) is taken with a plain forward-model call; an accepted
\* step becomes the new x, uses one iteration and gets its Jacobian; a
\* rejected one leaves x alone and raises gamma, and the run fails when gamma
\* is at gamma_max already.
oem_levenberg_marquardt ==
  /\ pc = "lm"
  /\ \E c \in CostPairs, conv \in BOOLEAN :
       IF c[1] + c[2] < sol.cost
       THEN LET it == sol.used_iter + 1
                stop == conv \/ it >= args.max_iter
            IN /\ sol' = [sol EXCEPT !.used_iter = it, !.cost_y = c[1],
                                     !.cost_x = c[2], !.cost = c[1] + c[2],
                                     !.trial = c[1] + c[2],
                                     !.gamma = GammaDecrease(sol.gamma),
                                     !.ret = IF conv THEN CONVERGED
                                             ELSE IF stop THEN MAX_ITER ELSE NaN]
               /\ x' = Vec("set", x.nelem, it)
               /\ yf' = Meas("set", yf.nelem, c[1])
               /\ dxdy' = [dxdy EXCEPT !.st = "set"]
               /\ gammaTrace' = Append(gammaTrace, sol.gamma)
               /\ nJacCalls' = nJacCalls + 1
               /\ pc' = IF stop THEN "return" ELSE "lm"
       ELSE /\ IF sol.gamma >= gamma_max * GammaScale
               THEN /\ sol' = [sol EXCEPT !.trial = c[1] + c[2], !.ret = GAMMA_MAX]
                    /\ pc' = "return"
               ELSE /\ sol' = [sol EXCEPT !.trial = c[1] + c[2],
                                          !.gamma = GammaIncrease(sol.gamma)]
                    /\ pc' = "lm"
            /\ UNCHANGED <<x, yf, dxdy, gammaTrace, nJacCalls>>
  /\ nFwdCalls' = nFwdCalls + 1
  /\ UNCHANGED <<batchvars, codecvars, args, error, xa, jacobian, oem_diagnostics, ml_ga_history,
                 cost_start>>

\* a solve of the normal equations that is singular or not finite ends the
\* run of an iterative solver
NumericFailure ==
  /\ pc \in {"gn", "lm"}
  /\ sol' = [sol EXCEPT !.ret = NUMERIC_FAILURE]
  /\ pc' = "return"
  /\ UNCHANGED <<batchvars, codecvars, args, error, outputs, cost_start, nJacCalls, nFwdCalls, gammaTrace>>

(***************************************************************************)
(* oem, lines 681-731: what oem does with the results of the solver it     *)
(* called, then clear_matrices.                                            *)
(***************************************************************************)
\* a linear branch that reports the solver's iteration counter
DiagLinearUsedIter(d, s) ==
  [d EXCEPT ![1] = s.ret, ![3] = s.cost_y + s.cost_x, ![4] = s.cost_y,
            ![5] = s.used_iter]

\* lines 685-692
DiagLinear(d, s) ==
  [d EXCEPT ![1] = s.ret, ![3] = s.cost_y + s.cost_x, ![4] = s.cost_y, ![5] = 1]

\* a Gauss-Newton branch that reports 1 iteration as the linear branch does
DiagGaussNewtonOne(d, s) ==
  [d EXCEPT ![1] = s.ret, ![3] = s.cost_y + s.cost_x, ![4] = s.cost_y, ![5] = 1]

\* lines 700-707
DiagGaussNewton(d, s) ==
  [d EXCEPT ![1] = s.ret, ![3] = s.cost_y + s.cost_x, ![4] = s.cost_y,
            ![5] = s.used_iter]

\* lines 709-724: the value of oem_levenberg_marquardt and used_iter, cost_y,
\* cost_x are dropped
DiagLevenbergMarquardt(d, s) == d

Diagnostics(a, d, s) ==
  IF a.method = "li" THEN DiagLinear(d, s)
  ELSE IF a.method = "gn" THEN DiagGaussNewton(d, s)
  ELSE DiagLevenbergMarquardt(d, s)

Return ==
  /\ pc = "return"
  /\ oem_diagnostics' = Diagnostics(args, oem_diagnostics, sol)
  /\ IF args.clear_matrices # 0
     THEN /\ jacobian' = Mat("set", 0, 0)
          /\ dxdy' = Mat("set", 0, 0)
     ELSE UNCHANGED <<jacobian, dxdy>>
  /\ pc' = "done"
  /\ UNCHANGED <<batchvars, codecvars, args, error, x, xa, yf, ml_ga_history, cost_start, sol,
                 nJacCalls, nFwdCalls, gammaTrace>>

(***************************************************************************)
(* The batch methods of m_atmosphere.cc.  A GriddedField4 is kept by its   *)
(* field names, its extents and, per field, the matrix column the field    *)
(* was copied from (0 for a constant field).                               *)
(***************************************************************************)
NBatch == 3           \* number of matrices in am
BatchWorkers == 2     \* threads of the parallel region

GField4(names, dims, cols) == [names |-> names, dims |-> dims, cols |-> cols]
EmptyGField4 == GField4(<<>>, <<0, 0, 0, 0>>, <<>>)

\* std::transform( ..., ::toupper ) on the spellings of "ignore" that occur
ToUpper(s) == IF s \in {"ignore", "Ignore", "IGNORE"} THEN "IGNORE" ELSE s

RECURSIVE CountRequired(_)
CountRequired(fn) ==
  IF Len(fn) = 0 THEN 0
  ELSE (IF ToUpper(fn[1]) # "IGNORE" THEN 1 ELSE 0) + CountRequired(Tail(fn))

\* atm_fields_compactFromMatrix, lines 161-208: the value is the error thrown
\* ("" for none) and the field af after the call
atm_fields_compactFromMatrix(af, atmosphere_dim, im, field_names) ==
  LET nf_1 == CountRequired(field_names)
  IN IF atmosphere_dim # 1 THEN [error |-> "atmosphere_dim", af |-> af]
     ELSE IF Len(field_names) # im.ncols - 1 THEN [error |-> "field_names", af |-> af]
     ELSE [error |-> "",
           af |-> GField4(SubSeq(field_names, 1, nf_1), <<nf_1, im.nrows, 1, 1>>,
                          [f \in 1..nf_1 |-> f])]

\* atm_fields_compactFromMatrixVMRonly, lines 224-284
atm_fields_compactFromMatrixVMRonly(af, atmosphere_dim, im, field_names) ==
  IF atmosphere_dim # 1 THEN [error |-> "atmosphere_dim", af |-> af]
  ELSE IF Len(field_names) # im.ncols - 1 THEN [error |-> "field_names", af |-> af]
  ELSE [error |-> "",
        af |-> GField4(SubSeq(field_names, 1, 2) \o SubSeq(field_names, 7, Len(field_names)),
                       <<4, im.nrows, 1, 1>>, <<1, 2, 6, 7>>)]

\* atm_fields_compactAddConstant, lines 296-321
atm_fields_compactAddConstant(af, name) ==
  IF Len(af.names) = 0 THEN [error |-> "no field", af |-> af]
  ELSE [error |-> "",
        af |-> GField4(Append(af.names, name), [af.dims EXCEPT ![1] = Len(af.names) + 1],
                       Append(af.cols, 0))]

\* the loop over extra_field_names of the plain method, lines 381-384
RECURSIVE AddConstants(_, _, _)
AddConstants(r, names, j) ==
  IF j > Len(names) \/ r.error # "" THEN r
  ELSE AddConstants(atm_fields_compactAddConstant(r.af, names[j]), names, j + 1)

\* exit_or_rethrow( e.what() ): inside a parallel region the process is
\* ended, elsewhere the error is thrown again
exit_or_rethrow(in_parallel) == IF in_parallel THEN "exited" ELSE "thrown"

\* the matrices, field names and surroundings that are tried; matrix i has
\* i + 1 pressure levels
BatchMatrix(nrows, ncols) == [nrows |-> nrows, ncols |-> ncols]
BatchFieldNames(hydromet) ==
  IF hydromet THEN { <<"T", "z", "LWC", "IWC", "Rain", "Snow", "H2O", "O3">> }
  ELSE { <<"T", "z", "H2O">>, <<"T", "ignore", "H2O">>, <<"T", "H2O", "Ignore">> }
BatchEnvs == {"omp", "omp_nested", "no_omp"}
BatchArgsOf(h) ==
  { [hydromet |-> h, atmosphere_dim |-> d, field_names |-> fn,
     am |-> [i \in 1..NBatch |-> BatchMatrix(i + 1, IF i \in good THEN Len(fn) + 1 ELSE Len(fn))],
     extra_field_names |-> en, n_extra_values |-> nv, env |-> e] :
       d \in {1, 2}, fn \in BatchFieldNames(h),
       good \in SUBSET (1..NBatch), en \in {<<>>, <<"N2">>}, nv \in {0, 1},
       e \in BatchEnvs }
BatchArgs == BatchArgsOf(FALSE) \cup BatchArgsOf(TRUE)

\* arts_omp_in_parallel() at the head of the loop and in the catch block
InParallel(a) == a.env # "no_omp"
Threads(a) == IF a.env = "omp" THEN BatchWorkers ELSE 1

\* lines 352-363 and 418-432: the check of the extra fields and the sizing
\* of the outputs
BatchEnter ==
  /\ bproc = "call"
  /\ IF Len(bargs.extra_field_names) # bargs.n_extra_values
     THEN /\ bproc' = "thrown"
          /\ UNCHANGED <<batch_atm_fields_compact, batch_atm_hydromet_fields_compact>>
     ELSE /\ bproc' = "running"
          /\ batch_atm_fields_compact' = Fill(NBatch, EmptyGField4)
          /\ batch_atm_hydromet_fields_compact' =
               IF bargs.hydromet THEN Fill(NBatch, EmptyGField4)
               ELSE batch_atm_hydromet_fields_compact
  /\ UNCHANGED <<oemvars, codecvars, bargs, bst>>

\* a thread takes the next iteration of the loop; without a team of threads
\* the iterations are taken in order, one at a time
BatchTake ==
  /\ bproc = "running"
  /\ Cardinality({ j \in 1..NBatch : bst[j] = "busy" }) < Threads(bargs)
  /\ \E i \in 1..NBatch :
       /\ bst[i] = "todo"
       /\ Threads(bargs) = 1 => \A j \in 1..(i - 1) : bst[j] # "todo"
       /\ bst' = [bst EXCEPT ![i] = "busy"]
  /\ UNCHANGED <<oemvars, codecvars, bargs, bproc, batch_atm_fields_compact,
                 batch_atm_hydromet_fields_compact>>

\* the body of the plain loop, lines 374-384
BodyPlain(a, i, out) ==
  LET r == atm_fields_compactFromMatrix(out[i], a.atmosphere_dim, a.am[i], a.field_names)
  IN AddConstants(r, a.extra_field_names, 1)

\* the body of the loop with hydrometeors, lines 443-461: the value holds both
\* fields
BodyHydromet(a, i, out, hyd) ==
  LET r1 == atm_fields_compactFromMatrixVMRonly(out[i], a.atmosphere_dim, a.am[i],
                                                a.field_names)
      r2 == atm_fields_compactFromMatrix(hyd[i], a.atmosphere_dim, a.am[i], a.field_names)
      h3 == AddConstants(r2, a.extra_field_names, 1)
      o3 == AddConstants(r1, a.extra_field_names, 1)
  IN IF r1.error # "" THEN [error |-> r1.error, af |-> r1.af, hyd |-> hyd[i]]
     ELSE IF r2.error # "" THEN [error |-> r2.error, af |-> r1.af, hyd |-> r2.af]
     ELSE IF h3.error # "" THEN [error |-> h3.error, af |-> r1.af, hyd |-> h3.af]
     ELSE [error |-> o3.error, af |-> o3.af, hyd |-> h3.af]

\* an iteration that writes to the element of its successor
BatchElementNext(out, i, af) == [out EXCEPT ![(i % NBatch) + 1] = af]

\* lines 376, 382, 445, 450: iteration i hands batch_atm_fields_compact[i]
\* and batch_atm_hydromet_fields_compact[i] to the methods that write
BatchElement(out, i, af) == [out EXCEPT ![i] = af]

\* one iteration of the loop: the try block and, after a runtime_error, the
\* catch block with exit_or_rethrow (lines 372-389 and 441-467)
BatchInstance ==
  /\ bproc = "running"
  /\ \E i \in 1..NBatch :
       /\ bst[i] = "busy"
       /\ LET r == IF bargs.hydromet
                   THEN BodyHydromet(bargs, i, batch_atm_fields_compact,
                                     batch_atm_hydromet_fields_compact)
                   ELSE BodyPlain(bargs, i, batch_atm_fields_compact)
          IN /\ batch_atm_fields_compact' = BatchElement(batch_atm_fields_compact, i, r.af)
             /\ batch_atm_hydromet_fields_compact' =
                  IF bargs.hydromet
                  THEN BatchElement(batch_atm_hydromet_fields_compact, i, r.hyd)
                  ELSE batch_atm_hydromet_fields_compact
             /\ IF r.error = ""
                THEN bst' = [bst EXCEPT ![i] = "done"] /\ bproc' = bproc
                ELSE /\ bst' = [bst EXCEPT ![i] = "failed"]
                     /\ bproc' = exit_or_rethrow(InParallel(bargs))
  /\ UNCHANGED <<oemvars, codecvars, bargs>>

\* the end of the loop: every iteration has completed
BatchReturn ==
  /\ bproc = "running"
  /\ \A i \in 1..NBatch : bst[i] = "done"
  /\ bproc' = "returned"
  /\ UNCHANGED <<oemvars, codecvars, bargs, bst, batch_atm_fields_compact,
                 batch_atm_hydromet_fields_compact>>

BatchIdle ==
  /\ bargs = CHOOSE a \in BatchArgs : TRUE
  /\ bst = Fill(NBatch, "todo")
  /\ bproc = "idle"
  /\ batch_atm_fields_compact = <<>>
  /\ batch_atm_hydromet_fields_compact = <<>>

OemIdle(a, p) ==
  /\ args = a
  /\ pc = p
  /\ error = ""
  /\ x = PriorVec /\ xa = <<>> /\ yf = PriorMeas
  /\ jacobian = PriorMat /\ dxdy = PriorMat
  /\ oem_diagnostics = <<>> /\ ml_ga_history = <<>>
  /\ cost_start = NaN
  /\ sol = NoSol
  /\ nJacCalls = 0 /\ nFwdCalls = 0 /\ gammaTrace = <<>>

\* no codec run
CodecIdle ==
  /\ cargs = [dim |-> 1, fv |-> 1, jq |-> <<>>, ji |-> <<>>, build |-> "debug", g |-> 1]
  /\ cpc = "idle"
  /\ cq = 0
  /\ run = Run(<<>>, Atmosphere(1).t_field, Atmosphere(1).vmr_field, "ok", FALSE, FALSE)
  /\ xin = <<>>

Init == (\E a \in OemArgs : OemIdle(a, "call")) /\ CodecIdle /\ BatchIdle

Next ==
  \/ Validate
  \/ APriori
  \/ StartCost
  \/ oem_linear_nform
  \/ oem_gauss_newton
  \/ oem_levenberg_marquardt
  \/ NumericFailure
  \/ Return

Spec == Init /\ [][Next]_vars

\* oem called with the identity as forward model
InitLinear == (\E a \in LinearArgs : OemIdle(a, "call")) /\ CodecIdle /\ BatchIdle

NextLinear ==
  \/ Validate
  \/ APriori
  \/ StartCost
  \/ oem_gauss_newton
  \/ Return

SpecLinear == InitLinear /\ [][NextLinear]_vars

(***************************************************************************)
(* The state codec on its own: setup_xa builds xa from the fields of an    *)
(* atmosphere, then x2arts_std is called with some x and writes the        *)
(* fields.  Both are taken quantity by quantity.                           *)
(***************************************************************************)
MaxQ == 2             \* longest list of retrieval quantities tried

\* main tag, subtag and mode of the quantities tried; "Wind" is a main tag
\* and "logrel" a mode that setup_xa and x2arts_std do not know
Kinds ==
  {<<TEMPERATURE_MAINTAG, "", "abs">>, <<"Wind", "u", "abs">>,
   <<ABSSPECIES_MAINTAG, "H2O", "logrel">>}
    \cup { <<ABSSPECIES_MAINTAG, sp, mo>> :
             sp \in {"H2O", "O3"}, mo \in {"rel", "vmr", "nd"} }

\* lists of quantities, no two of them for the same field
QuantityLists(dim, opt) ==
  UNION { { [i \in 1..n |-> RQ(f[i][1], f[i][2], f[i][3], RetrievalGrids(dim, opt))] :
              f \in { h \in [1..n -> Kinds] :
                        \A i, j \in 1..n : i # j => (h[i][1] # h[j][1] \/ h[i][2] # h[j][2]) } } :
          n \in 1..MaxQ }

Builds == { [build |-> "debug", g |-> 1], [build |-> "release", g |-> 1],
            [build |-> "release", g |-> 3] }

InitCodec ==
  /\ OemIdle(CHOOSE a \in BaseArgs : TRUE, "idle")
  /\ \E dim \in 1..3, fv \in 1..2, b \in Builds,
        opt \in {"same", "coarse", "narrow", "wide", "single"} :
       \E l \in QuantityLists(dim, opt) :
          /\ cargs = [dim |-> dim, fv |-> fv, jq |-> l, ji |-> Indices(l, dim),
                      build |-> b.build, g |-> b.g]
          /\ run = Run(Fill(Indices(l, dim)[Len(l)][2] + 1, NaN),
                       AtmosphereV(dim, fv).t_field, AtmosphereV(dim, fv).vmr_field,
                       "ok", FALSE, FALSE)
  /\ cpc = "setup_xa"
  /\ cq = 1
  /\ xin = <<>>
  /\ BatchIdle

Atm == AtmosphereV(cargs.dim, cargs.fv)

\* setup_xa: one turn of its loop
SetupXaQuantity ==
  /\ cpc = "setup_xa"
  /\ run' = setup_xa_quantity(run, cargs.jq, cargs.ji, cq, Atm, cargs.g, cargs.build)
  /\ IF run'.status # "ok" THEN cpc' = "aborted" /\ cq' = cq
     ELSE IF cq = Len(cargs.jq) THEN cpc' = "xa" /\ cq' = cq
     ELSE cpc' = cpc /\ cq' = cq + 1
  /\ UNCHANGED <<batchvars, oemvars, cargs, xin>>

\* the state vectors x2arts_std is called with: xa itself, xa with every
\* element doubled, xa with one element more and xa with one element less
XChoices(xav) ==
  { xav, [k \in 1..Len(xav) |-> 2 * xav[k]], Append(xav, 1),
    SubSeq(xav, 1, Len(xav) - 1) }

\* the lengths of jacobian_quantities and jacobian_indices that x2arts_std
\* is called with: those of setup_xa, both lists empty, and jacobian_indices
\* without its last element
X2artsLists(jq, ji) ==
  { [nq |-> Len(jq), nji |-> Len(ji)], [nq |-> 0, nji |-> 0],
    [nq |-> Len(jq), nji |-> Len(ji) - 1] }

\* x2arts_std, line 430: ji[nq-1] is an element of ji
JiLastInRange(nq, nji) == nq >= 1 /\ nq <= nji

\* how x2arts_std ends after ji[nq-1] was read outside ji (cpc = "misread",
\* with the way it ended in run.status): the index assert
\* of Array aborts; without it memory beside the array is taken for an
\* ArrayOfIndex, which ends the process, fails the check of the length of x
\* or, for a value that passes it, lets an empty loop return or a loop over
\* further such reads end the process
JiOutOfRange(build, nq) ==
  IF build = "debug" THEN {"assert"}
  ELSE IF nq = 0 THEN {"segv", "throw", "ok"}
  ELSE {"segv", "throw"}

\* x2arts_std, lines 427-432: the call and its check of x
X2artsCall ==
  /\ cpc = "xa"
  /\ \E xs \in XChoices(run.xa), l \in X2artsLists(cargs.jq, cargs.ji) :
       /\ xin' = xs
       /\ IF JiLastInRange(l.nq, l.nji)
          THEN IF x2arts_std_check(cargs.jq, cargs.ji, xs)
               THEN cpc' = "x2arts_std" /\ run' = run
               ELSE cpc' = "aborted" /\ run' = [run EXCEPT !.status = "throw"]
          ELSE /\ xs = run.xa
               /\ \E o \in JiOutOfRange(cargs.build, l.nq) :
                    /\ run' = [run EXCEPT !.status = o, !.ji_oob = TRUE]
                    /\ cpc' = "misread"
  /\ cq' = 1
  /\ UNCHANGED <<batchvars, oemvars, cargs>>

\* x2arts_std: one turn of its loop
X2artsQuantity ==
  /\ cpc = "x2arts_std"
  /\ run' = x2arts_std_quantity(run, cargs.jq, cargs.ji, xin, cq, Atm,
                                cargs.g, cargs.build)
  /\ IF run'.status # "ok" THEN cpc' = "aborted" /\ cq' = cq
     ELSE IF cq = Len(cargs.jq) THEN cpc' = "done" /\ cq' = cq
     ELSE cpc' = cpc /\ cq' = cq + 1
  /\ UNCHANGED <<batchvars, oemvars, cargs, xin>>

NextCodec ==
  \/ SetupXaQuantity
  \/ X2artsCall
  \/ X2artsQuantity

SpecCodec == InitCodec /\ [][NextCodec]_vars

(***************************************************************************)
(* A batch method on its own.                                              *)
(***************************************************************************)
InitBatch ==
  /\ OemIdle(CHOOSE a \in BaseArgs : TRUE, "idle")
  /\ CodecIdle
  /\ bargs \in BatchArgs
  /\ bst = Fill(NBatch, "todo")
  /\ bproc = "call"
  /\ batch_atm_fields_compact = <<>>
  /\ batch_atm_hydromet_fields_compact = <<>>

NextBatch ==
  \/ BatchEnter
  \/ BatchTake
  \/ BatchInstance
  \/ BatchReturn

SpecBatch == InitBatch /\ [][NextBatch]_vars

(***************************************************************************)
(* Properties of oem.                                                      *)
(***************************************************************************)
Returned == pc = "done"
GuardPassed == pc \notin {"call", "thrown", "checked", "evaluated"}
\* the a priori cost was taken and exceeds a positive max_start_cost
StartCostExceeds ==
  /\ GuardPassed
  /\ args.max_start_cost > 0
  /\ Gt(cost_start, args.max_start_cost)

\* C1 as stated: when max_start_cost > 0 and the a priori cost exceeds it, oem
\* returns with oem_diagnostics[0] = 99, x untouched, and the agenda has never
\* been executed with the Jacobian flag 1
C1_Original ==
  StartCostExceeds =>
    /\ Returned
    /\ oem_diagnostics[1] = HIGH_START_COST
    /\ x = PriorVec
    /\ nJacCalls = 0

\* C1 amended: when max_start_cost > 0 and the a priori cost exceeds it, oem
\* returns with oem_diagnostics[0] = 99 and x untouched; the agenda has been
\* executed with the Jacobian flag 1 exactly once (at xa, before the guard),
\* no solver was called and the forward model was not evaluated again
C1_Amended ==
  StartCostExceeds =>
    /\ Returned
    /\ oem_diagnostics[1] = HIGH_START_COST
    /\ x = PriorVec
    /\ nJacCalls = 1
    /\ nFwdCalls = 0
    /\ ~sol.called

C1_Witness ==
  /\ StartCostExceeds
  /\ Returned
  /\ oem_diagnostics[1] = HIGH_START_COST
  /\ nJacCalls = 1

\* C2: on every normal return of oem, for each method and on the
\* high-start-cost path, oem_diagnostics[0] is one of the termination codes
\* (not NaN)
C2_Claim == Returned => oem_diagnostics[1] \in TerminationCodes

\* The violations of the input contract that C3 lists, in no order.
SxSquare(a) == a.covmat_sx_inv.ncols = a.covmat_sx_inv.nrows
LayoutLength(a) == a.jacobian_indices[Len(a.jacobian_indices)][2] + 1
ContractViolation(a) ==
  \/ a.jacobian_do = 0
  \/ Len(a.jacobian_quantities) = 0
  \/ ~SxSquare(a)
  \/ a.covmat_so_inv.ncols # a.covmat_so_inv.nrows
  \/ a.covmat_so_inv.nrows # a.y.nelem
  \/ Len(a.jacobian_indices) # Len(a.jacobian_quantities)
  \/ (Len(a.jacobian_indices) > 0 /\ LayoutLength(a) # a.covmat_sx_inv.nrows)
  \/ a.method \notin Methods
  \/ (Len(a.x_norm) # 0 /\ Len(a.x_norm) # a.covmat_sx_inv.nrows)
  \/ \E i \in 1..Len(a.x_norm) : a.x_norm[i] <= 0
  \/ a.max_iter <= 0
  \/ a.stop_dx <= 0

OutputsUntouched ==
  /\ x = PriorVec /\ xa = <<>> /\ yf = PriorMeas
  /\ jacobian = PriorMat /\ dxdy = PriorMat
  /\ oem_diagnostics = <<>> /\ ml_ga_history = <<>>

\* C3: a call of oem that violates the input contract throws before the
\* agenda is executed and before any output is modified
C3_FailFast ==
  ContractViolation(args) =>
    /\ pc \in {"call", "thrown"}
    /\ pc = "thrown" => error # ""
    /\ nJacCalls = 0 /\ nFwdCalls = 0
    /\ OutputsUntouched

\* the scenario of C3: covmat_sx_inv is 3 x 3, the state layout has length 4
C3_Witness ==
  /\ pc = "thrown"
  /\ args.covmat_sx_inv = [nrows |-> 3, ncols |-> 3]
  /\ Len(args.jacobian_indices) = Len(args.jacobian_quantities)
  /\ LayoutLength(args) = 4
  /\ error = "covmat_sx_inv and jacobian_indices"
  /\ nJacCalls = 0

BadGaSettings(a) ==
  \/ Len(a.ml_ga_settings) # 6
  \/ \E i \in 1..Len(a.ml_ga_settings) : a.ml_ga_settings[i] < 0

\* C4: with method "lm" or "ml", an ml_ga_settings of a length other than 6
\* or with a negative entry is rejected by the checks, before the forward
\* model is called
C4_Claim ==
  (args.method \in {"lm", "ml"} /\ BadGaSettings(args)) =>
    /\ pc \in {"call", "thrown"}
    /\ nJacCalls = 0 /\ nFwdCalls = 0

\* C5: after a Levenberg-Marquardt run of k iterations, ml_ga_history holds
\* the gamma used in each of the k iterations, in order
C5_Claim ==
  (Returned /\ args.method \in {"lm", "ml"} /\ sol.called) =>
    /\ Len(gammaTrace) = sol.used_iter
    /\ Len(ml_ga_history) >= sol.used_iter
    /\ \A i \in 1..sol.used_iter : ml_ga_history[i] * GammaScale = gammaTrace[i]

\* C6 as stated: with method "li" oem executes the agenda once with the
\* Jacobian flag and never again, and reports 1 used iteration
C6_Original ==
  (Returned /\ args.method = "li") =>
    /\ nJacCalls = 1 /\ nFwdCalls = 0
    /\ oem_diagnostics[5] = 1

\* C6 amended: with method "li" oem executes the agenda once with the
\* Jacobian flag and never again, for every max_iter > 0 and every cost; it
\* reports 1 used iteration whenever the start-cost guard let the solver run,
\* and leaves oem_diagnostics[4] at NaN when the guard fired
C6_Amended ==
  (Returned /\ args.method = "li") =>
    /\ nJacCalls = 1 /\ nFwdCalls = 0
    /\ oem_diagnostics[5] = IF sol.called THEN 1 ELSE NaN
    /\ sol.called <=> ~TooHighStartCost(args, cost_start)

C6_Witness ==
  /\ Returned /\ args.method = "li" /\ sol.called
  /\ args.max_iter = MaxIter
  /\ sol.cost = MaxCost
  /\ oem_diagnostics[5] = 1
  /\ nJacCalls = 1

\* C14: code 99 is never the code of a run in which a solver was called, no
\* solver is called once the guard has fired, and on the guard path
\* oem_diagnostics is 99, the start cost that exceeds max_start_cost, and NaN
\* for final cost, cost_y and used iterations
C14_Distinct ==
  /\ (Returned /\ sol.called) => oem_diagnostics[1] # HIGH_START_COST
  /\ StartCostExceeds => ~sol.called
  /\ (Returned /\ ~sol.called) =>
       /\ oem_diagnostics = <<HIGH_START_COST, cost_start, NaN, NaN, NaN>>
       /\ args.max_start_cost > 0
       /\ Gt(oem_diagnostics[2], args.max_start_cost)

\* the guard fired for a Gauss-Newton call with the largest start cost
C14_Witness ==
  /\ Returned /\ ~sol.called /\ args.method = "gn"
  /\ oem_diagnostics = <<HIGH_START_COST, MaxCost, NaN, NaN, NaN>>
  /\ nFwdCalls = 0

\* a trial step of Levenberg-Marquardt was taken and did not lower the cost
LMRejects ==
  /\ pc = "lm" /\ nFwdCalls' = nFwdCalls + 1
  /\ ~(sol'.trial < sol.cost)

LinearReturned == Returned /\ args.forward = "identity" /\ args.method = "gn"
\* the scenario: covmat_sx_inv = I, xa = [250,260,270], y = [251,259,272]
MeanScenario ==
  /\ args.sx = 1
  /\ xa = <<250 * FixScale, 260 * FixScale, 270 * FixScale>>
  /\ args.y.data = <<251 * FixScale, 259 * FixScale, 272 * FixScale>>
XIsMean == \A i \in 1..3 : 2 * x.id[i] = xa[i] + args.y.data[i]

TerminalStates == {CONVERGED, MAX_ITER, HIGH_START_COST, NUMERIC_FAILURE}
Iterative == args.method \in {"gn", "lm", "ml"}

\* C17: a run of oem with valid inputs ends in exactly one of the terminal
\* states CONVERGED, MAX_ITER, ABORTED_HIGH_START_COST, NUMERIC_FAILURE; with
\* Gauss-Newton and Levenberg-Marquardt the iterations, and the forward-model
\* calls after the one at xa, never exceed max_iter, and a run that used
\* max_iter iterations without convergence ends in MAX_ITER
C17_Claim ==
  Returned =>
    /\ oem_diagnostics[1] \in TerminalStates
    /\ Iterative =>
         /\ sol.used_iter <= args.max_iter
         /\ (nJacCalls - 1) + nFwdCalls <= args.max_iter
    /\ (Iterative /\ sol.used_iter = args.max_iter
          /\ sol.ret \notin {CONVERGED, NUMERIC_FAILURE})
         => oem_diagnostics[1] = MAX_ITER

\* C23: whatever the method, display_progress and max_start_cost, the start
\* cost that oem puts into oem_diagnostics[1] is the cost of the yf of xa
\* (the cost of x is 0 at xa), and after a solver run oem_diagnostics[2] is
\* cost_y + cost_x and oem_diagnostics[3] is cost_y of the solver, with the
\* start cost still in place
C23_Claim ==
  [][ /\ pc = "evaluated" => oem_diagnostics'[2] = oem_cost_y(yf)
      /\ pc = "return" =>
           /\ oem_diagnostics'[2] = oem_diagnostics[2]
           /\ oem_diagnostics'[3] = sol.cost_y + sol.cost_x
           /\ oem_diagnostics'[4] = sol.cost_y ]_vars

\* a trial step of Levenberg-Marquardt is computed
LMTrial == pc = "lm" /\ nFwdCalls' = nFwdCalls + 1
LMAccepts == LMTrial /\ sol'.trial < sol.cost
GammaInBounds(g) == g >= 0 /\ g <= gamma_max * GammaScale

C28_Claim ==
  Returned =>
    /\ args.clear_matrices = 1 =>
         /\ jacobian.nrows = 0 /\ jacobian.ncols = 0
         /\ dxdy.nrows = 0 /\ dxdy.ncols = 0
    /\ (args.clear_matrices = 0 /\ sol.called) =>
         /\ dxdy.nrows = args.covmat_sx_inv.nrows /\ dxdy.ncols = args.y.nelem
         /\ x.nelem = args.covmat_sx_inv.nrows

(***************************************************************************)
(* Properties of the state codec.                                          *)
(***************************************************************************)
IsSpecies(rq, mode) == rq.MainTag = ABSSPECIES_MAINTAG /\ rq.Mode = mode
IsTemperature(rq) == rq.MainTag = TEMPERATURE_MAINTAG
SameGrids(rq) == rq.Grids = <<Atm.p_grid, Atm.lat_grid, Atm.lon_grid>>
InBlock(k, q) == k > cargs.ji[q][1] /\ k <= cargs.ji[q][2] + 1

\* C7: the turn of setup_xa for a species quantity in mode "rel" sets
\* exactly the elements ji[q][0]..ji[q][1] of xa to 1, whatever the fields
\* hold, and leaves every other element of xa as it was
C7_RelOnes ==
  [][ (cpc = "setup_xa" /\ IsSpecies(cargs.jq[cq], "rel")) =>
        /\ run'.status = "ok"
        /\ Len(run'.xa) = Len(run.xa)
        /\ \A k \in 1..Len(run.xa) :
             run'.xa[k] = IF InBlock(k, cq) THEN 1 ELSE run.xa[k] ]_vars

\* a "rel" quantity was the first of two: its block is 1, the rest unwritten
C7_Witness ==
  /\ cpc = "setup_xa" /\ cq = 2 /\ cargs.fv = 2
  /\ IsSpecies(cargs.jq[1], "rel")
  /\ \A k \in 1..Len(run.xa) : run.xa[k] = IF InBlock(k, 1) THEN 1 ELSE NaN
  /\ \E k \in 1..Len(run.xa) : ~InBlock(k, 1)

\* x2arts_std was called with the xa of setup_xa and has ended
RoundTripEnded == cpc \in {"done", "aborted"} /\ xin # <<>> /\ xin = run.xa

\* C8: for a single species quantity in mode "rel", x2arts_std called with
\* the xa of setup_xa completes without error and without an access out of
\* range, and leaves vmr_field and t_field as they were
C8_Claim ==
  (Len(cargs.jq) = 1 /\ IsSpecies(cargs.jq[1], "rel") /\ RoundTripEnded) =>
    /\ cpc = "done"
    /\ ~run.oob
    /\ run.vmr_field = Atm.vmr_field
    /\ run.t_field = Atm.t_field

\* C9: the turn of x2arts_std for a temperature quantity, or a species
\* quantity in mode "vmr", whose grids are the atmospheric grids, called with
\* the xa of setup_xa, gives t_field, or the species' part of vmr_field,
\* element for element the values of the original field
C9_RoundTrip ==
  [][ (cpc = "x2arts_std" /\ xin = run.xa /\ SameGrids(cargs.jq[cq])) =>
        /\ IsTemperature(cargs.jq[cq]) =>
             (run'.status = "ok" /\ run'.t_field = Atm.t_field)
        /\ IsSpecies(cargs.jq[cq], "vmr") =>
             /\ run'.status = "ok"
             /\ Book(run'.vmr_field, chk_contains(cargs.jq[cq].Subtag))
                  = Book(Atm.vmr_field, chk_contains(cargs.jq[cq].Subtag)) ]_vars

\* temperature and the second species in mode "vmr" went there and back in 3D
C9_Witness ==
  /\ cpc = "done" /\ xin = run.xa /\ cargs.dim = 3
  /\ Len(cargs.jq) = 2
  /\ IsTemperature(cargs.jq[1]) /\ SameGrids(cargs.jq[1])
  /\ IsSpecies(cargs.jq[2], "vmr") /\ cargs.jq[2].Subtag = "O3"
  /\ run.xa = flat(Atm.t_field) \o flat(Book(Atm.vmr_field, 1))
  /\ run.t_field = Atm.t_field
  /\ run.vmr_field = Atm.vmr_field

\* C10: for a single species quantity in mode "nd" whose grids are the
\* atmospheric grids, setup_xa builds xa and x2arts_std called with it gives
\* back the species' part of vmr_field at every cell
C10_Claim ==
  (Len(cargs.jq) = 1 /\ IsSpecies(cargs.jq[1], "nd") /\ SameGrids(cargs.jq[1])) =>
    /\ cpc # "aborted"
    /\ ~run.oob
    /\ (cpc = "done" /\ xin = run.xa) =>
         Book(run.vmr_field, chk_contains(cargs.jq[1].Subtag))
           = Book(Atm.vmr_field, chk_contains(cargs.jq[1].Subtag))

\* a quantity for which setup_xa and x2arts_std have no branch
Unhandled(rq) ==
  \/ rq.MainTag \notin {TEMPERATURE_MAINTAG, ABSSPECIES_MAINTAG}
  \/ rq.MainTag = ABSSPECIES_MAINTAG /\ rq.Mode \notin {"rel", "vmr", "nd"}

\* C12: a quantity with an unknown main tag, or a species quantity with an
\* unknown mode, ends setup_xa or x2arts_std with a fatal error: neither loop
\* ever gets past such a quantity and neither call returns normally
C12_Claim ==
  \A q \in 1..Len(cargs.jq) :
     Unhandled(cargs.jq[q]) =>
       /\ cpc \notin {"xa", "x2arts_std", "done"}
       /\ cpc = "setup_xa" => cq <= q

\* the length x2arts_std wants of x
XLength == cargs.ji[Len(cargs.jq)][2] + 1

\* C13: a call of x2arts_std with an x whose length is not the last index of
\* the last quantity plus 1 ends with a thrown error, and t_field and
\* vmr_field are as they were before the call
C13_LengthCheck ==
  [][ (cpc = "xa" /\ Len(xin') # XLength) =>
        /\ cpc' = "aborted"
        /\ run'.status = "throw"
        /\ run'.t_field = run.t_field
        /\ run'.vmr_field = run.vmr_field ]_vars

\* x2arts_std threw for an x that is one element too long, after a setup_xa
\* of two quantities
C13_Witness ==
  /\ cpc = "aborted" /\ run.status = "throw"
  /\ Len(cargs.jq) = 2
  /\ Len(xin) = XLength + 1
  /\ run.t_field = Atm.t_field /\ run.vmr_field = Atm.vmr_field

\* the number densities of quantity q on its retrieval grids in the order of
\* flat(): element k is the cell with pressure index (k - 1) % np
NdExpected(q) ==
  LET rq == cargs.jq[q]
      gp == get_gp_atmgrids_to_rq(rq, Atm.atmosphere_dim, Atm.p_grid, Atm.lat_grid,
                                  Atm.lon_grid)
      vmr_x == regrid_atmfield_by_gp(Atm.atmosphere_dim,
                                     Book(Atm.vmr_field, chk_contains(rq.Subtag)),
                                     gp.gp_p, gp.gp_lat, gp.gp_lon)
      t_x == regrid_atmfield_by_gp(Atm.atmosphere_dim, Atm.t_field,
                                   gp.gp_p, gp.gp_lat, gp.gp_lon)
  IN [k \in 1..Size3(vmr_x) |->
        flat(vmr_x)[k] * number_density(rq.Grids[1][((k - 1) % vmr_x.npages) + 1],
                                        flat(t_x)[k])]

\* setup_xa has gone past quantity q
SetupXaPast(q) == cpc = "xa" \/ (cpc = "setup_xa" /\ cq > q)

\* C18: setup_xa gets through a quantity in mode "nd", and when it has,
\* element k of the quantity's block of xa is vmr * p / (T k_B) of the cell
\* that flat() puts at offset k, with the pressure of that cell
C18_Claim ==
  \A q \in 1..Len(cargs.jq) :
     IsSpecies(cargs.jq[q], "nd") =>
       /\ ~(cpc = "aborted" /\ cq = q /\ run.status = "assert")
       /\ SetupXaPast(q) =>
            SubSeq(run.xa, cargs.ji[q][1] + 1, cargs.ji[q][2] + 1) = NdExpected(q)

\* the branches of setup_xa and of x2arts_std that call the grid mapper
MapsToRq(rq) ==
  \/ IsTemperature(rq)
  \/ rq.MainTag = ABSSPECIES_MAINTAG /\ rq.Mode \in {"vmr", "nd"}
MapsToAtm(rq) == IsTemperature(rq) \/ rq.MainTag = ABSSPECIES_MAINTAG
Active(d) == d <= cargs.dim
AtmGrid(d) == <<Atm.p_grid, Atm.lat_grid, Atm.lon_grid>>[d]
GpOf(g, d) == <<g.gp_p, g.gp_lat, g.gp_lon>>[d]

FirstIfSingle(rq, d, i) == IF Len(rq.Grids[d]) = 1 THEN 0 ELSE i

\* C20: in a turn of x2arts_std, for each active dimension on its own, a
\* retrieval grid of one point is handled by gp4length1grid, without a call
\* of gridpos, and puts every point of the atmospheric grid on that single
\* point; a longer retrieval grid goes through gridpos.  The retrieved
\* temperature field is then constant along each dimension whose retrieval
\* grid has one point, and holds the single element of x everywhere when
\* every active dimension has one
C20_Length1 ==
  [][ (cpc = "x2arts_std" /\ MapsToAtm(cargs.jq[cq])) =>
        LET rq == cargs.jq[cq]
            t == run'.t_field
        IN /\ \A d \in 1..cargs.dim :
                /\ Len(rq.Grids[d]) = 1 =>
                     /\ run'.gp.extpolfac[d] = NoFactor
                     /\ GpOf(run'.gp, d) = gp4length1grid(Len(AtmGrid(d)))
                /\ Len(rq.Grids[d]) > 1 => run'.gp.extpolfac[d] = inf_proxy
           /\ IsTemperature(rq) =>
                \A i \in 0..(t.npages - 1), j \in 0..(t.nrows - 1), k \in 0..(t.ncols - 1) :
                   /\ At3(t, i, j, k) = At3(t, FirstIfSingle(rq, 1, i),
                                            IF cargs.dim >= 2 THEN FirstIfSingle(rq, 2, j) ELSE j,
                                            IF cargs.dim >= 3 THEN FirstIfSingle(rq, 3, k) ELSE k)
                   /\ (\A d \in 1..cargs.dim : Len(rq.Grids[d]) = 1)
                        => At3(t, i, j, k) = xin[cargs.ji[cq][1] + 1] ]_vars

\* x2arts_std has run on a 3D atmosphere with retrieval grids of one point in
\* every dimension: no call of gridpos, and the temperature field holds the
\* one temperature of x, which differs from the a priori, in every cell
C20_Witness ==
  /\ cpc = "done" /\ cargs.dim = 3
  /\ IsTemperature(cargs.jq[1]) /\ Len(cargs.jq) = 1
  /\ \A d \in 1..3 : Len(cargs.jq[1].Grids[d]) = 1
  /\ run.gp.dir = "rq2atm"
  /\ run.gp.extpolfac = <<NoFactor, NoFactor, NoFactor>>
  /\ Len(run.gp.gp_p) = 3 /\ Len(run.gp.gp_lat) = 2 /\ Len(run.gp.gp_lon) = 2
  /\ xin # run.xa
  /\ \A k \in 1..Len(run.t_field.data) : run.t_field.data[k] = xin[1]

\* the field x2arts_std regrids for quantity q: the block of x, reshaped and
\* interpolated to the atmospheric grids
Regridded(q) ==
  LET gp == get_gp_rq_to_atmgrids(cargs.jq[q], cargs.dim, Atm.p_grid,
                                  Atm.lat_grid, Atm.lon_grid)
  IN regrid_atmfield_by_gp(cargs.dim,
       reshape(gp.n_p, gp.n_lat, gp.n_lon,
               SubSeq(xin, cargs.ji[q][1] + 1, cargs.ji[q][2] + 1)),
       gp.gp_p, gp.gp_lat, gp.gp_lon)

\* the books of all species but isp are the same in V and W
OtherBooksSame(V, W, isp) ==
  \A s \in 0..(V.nbooks - 1) : s # isp => Book(V, s) = Book(W, s)

\* C21: a turn of x2arts_std for a species in mode "rel" multiplies each
\* element of the species' block of vmr_field by the regridded factor, one
\* in mode "vmr" replaces the block by the regridded values, and both leave
\* the blocks of the other species and t_field as they were; a turn for a
\* temperature quantity changes t_field alone and keeps its dimensions
C21_Claim ==
  [][ cpc = "x2arts_std" =>
        LET rq == cargs.jq[cq]
            isp == chk_contains(rq.Subtag)
            new == Regridded(cq)
            old == Book(run.vmr_field, isp)
        IN /\ IsSpecies(rq, "rel") =>
                /\ Book(run'.vmr_field, isp).data
                     = [k \in 1..Len(old.data) |-> old.data[k] * new.data[k]]
                /\ OtherBooksSame(run.vmr_field, run'.vmr_field, isp)
                /\ run'.t_field = run.t_field
           /\ IsSpecies(rq, "vmr") =>
                /\ Book(run'.vmr_field, isp).data = new.data
                /\ OtherBooksSame(run.vmr_field, run'.vmr_field, isp)
                /\ run'.t_field = run.t_field
           /\ IsTemperature(rq) =>
                /\ run'.vmr_field = run.vmr_field
                /\ run'.t_field.data = new.data
                /\ run'.t_field.npages = run.t_field.npages
                /\ run'.t_field.nrows = run.t_field.nrows
                /\ run'.t_field.ncols = run.t_field.ncols ]_vars

\* the positions of a temperature quantity and of a species in mode "nd"
TAndNd(qt, qn) ==
  /\ qt \in 1..Len(cargs.jq) /\ qn \in 1..Len(cargs.jq)
  /\ IsTemperature(cargs.jq[qt]) /\ IsSpecies(cargs.jq[qn], "nd")

\* C22: when x2arts_std has run on a list with a temperature quantity and a
\* species in mode "nd", in either order, every element of the species' block
\* of vmr_field is the regridded number density divided by the number
\* density of air at a pressure of p_grid and at the temperature that x gives
\* for that cell, which is the t_field the call returns
C22_Claim ==
  \A qt, qn \in 1..MaxQ :
     (cpc = "done" /\ TAndNd(qt, qn)) =>
        LET isp == chk_contains(cargs.jq[qn].Subtag)
            vmr == Book(run.vmr_field, isp)
            nd == Regridded(qn)
        IN \A k \in 1..Len(vmr.data) :
              \E i1 \in 1..Len(Atm.p_grid) :
                 vmr.data[k] = nd.data[k]
                                 \div number_density(Atm.p_grid[i1], run.t_field.data[k])

\* C24: no step of the "nd" loop of setup_xa or of the "rel" and "nd" loops
\* of x2arts_std uses an index that is not below the extent it indexes, and
\* a turn of setup_xa writes no element of xa outside the range of its
\* quantity
C24_Claim ==
  [][ /\ ~run'.oob
      /\ cpc = "setup_xa" =>
           /\ Len(run'.xa) = Len(run.xa)
           /\ \A k \in 1..Len(run.xa) : ~InBlock(k, cq) => run'.xa[k] = run.xa[k] ]_vars

\* the temporary tensor of a turn of setup_xa, regridded with the grid
\* positions gp: t_x for temperature, vmr_x for a species
TempTensor(rq, gp) ==
  regrid_atmfield_by_gp(cargs.dim,
    IF IsTemperature(rq) THEN Atm.t_field
    ELSE Book(Atm.vmr_field, chk_contains(rq.Subtag)),
    gp.gp_p, gp.gp_lat, gp.gp_lon)

\* the number of points of the grids of rq in the active dimensions
GridPoints(rq) ==
  Len(rq.Grids[1]) * (IF cargs.dim >= 2 THEN Len(rq.Grids[2]) ELSE 1)
                   * (IF cargs.dim >= 3 THEN Len(rq.Grids[3]) ELSE 1)

C29_Claim == ~run.ji_oob

(***************************************************************************)
(* Properties of the batch methods.                                        *)
(***************************************************************************)
BatchOver == bproc \in {"returned", "thrown", "exited"}
InstanceFailed == \E i \in 1..NBatch : bst[i] = "failed"

\* C11: a runtime error in the iteration of one instance does not end the
\* process and does not keep any other instance from being processed: when
\* the batch is over every instance has run its iteration, and the others
\* have their output element written
C11_Claim ==
  InstanceFailed =>
    /\ bproc # "exited"
    /\ BatchOver =>
         \A j \in 1..NBatch :
            /\ bst[j] \in {"done", "failed"}
            /\ bst[j] = "done" => batch_atm_fields_compact[j] # EmptyGField4

\* the columns of the matrix, counted from the pressure column 0, whose name
\* is not "ignore" in any spelling, in their order
KeptColumns(fn) ==
  SelectSeq([f \in 1..Len(fn) |-> f], LAMBDA f : ToUpper(fn[f]) # "IGNORE")

\* the field that atm_fields_compactFromMatrix has made for instance i
FromMatrixField(i) ==
  IF bargs.hydromet THEN batch_atm_hydromet_fields_compact[i]
  ELSE batch_atm_fields_compact[i]

\* C26: the field that atm_fields_compactFromMatrix makes has the names of
\* field_names that are not "ignore", in their order and wherever they stand
\* in the list, and its row f holds the matrix column of the f-th such name;
\* the constant fields added afterwards follow them
C26_Claim ==
  \A i \in 1..NBatch :
     bst[i] = "done" =>
        LET kept == KeptColumns(bargs.field_names)
            af == FromMatrixField(i)
        IN /\ Len(af.names) >= Len(kept)
           /\ \A f \in 1..Len(kept) :
                 /\ af.names[f] = bargs.field_names[kept[f]]
                 /\ af.cols[f] = kept[f]

\* what iteration i leaves in batch_atm_fields_compact[i] and, with
\* hydrometeors, in batch_atm_hydromet_fields_compact[i] when the loop is run
\* in the order of the index on outputs as the resize left them
SequentialPlain(i) ==
  IF bargs.hydromet
  THEN BodyHydromet(bargs, i, Fill(NBatch, EmptyGField4), Fill(NBatch, EmptyGField4)).af
  ELSE BodyPlain(bargs, i, Fill(NBatch, EmptyGField4)).af
SequentialHydromet(i) ==
  BodyHydromet(bargs, i, Fill(NBatch, EmptyGField4), Fill(NBatch, EmptyGField4)).hyd

\* C30: an iteration of a batch loop changes no output element but its own,
\* so that no element is written by two iterations, and when the method
\* returns, which it does when no instance failed, the outputs are those of
\* the loop run in the order of the index, whatever the order in which the
\* threads took and finished the iterations
C30_OwnElement ==
  /\ [][ bproc = "running" =>
           \A j \in 1..NBatch :
              bst'[j] = bst[j] =>
                 /\ batch_atm_fields_compact'[j] = batch_atm_fields_compact[j]
                 /\ bargs.hydromet =>
                      batch_atm_hydromet_fields_compact'[j]
                        = batch_atm_hydromet_fields_compact[j] ]_vars
  /\ [](bproc = "returned" =>
          \A i \in 1..NBatch :
             /\ batch_atm_fields_compact[i] = SequentialPlain(i)
             /\ bargs.hydromet =>
                  batch_atm_hydromet_fields_compact[i] = SequentialHydromet(i))

\* iteration 3 was finished by one thread while iteration 1 is still
\* running on the other and iteration 2 is not taken: element 3 of both
\* outputs is written, with the 4 pressure levels of its matrix, and
\* elements 1 and 2 are empty
C30_Witness ==
  /\ bproc = "running" /\ bargs.env = "omp" /\ bargs.hydromet
  /\ bst = <<"busy", "todo", "done">>
  /\ batch_atm_fields_compact[3] = SequentialPlain(3)
  /\ batch_atm_hydromet_fields_compact[3] = SequentialHydromet(3)
  /\ batch_atm_fields_compact[3].dims[2] = NBatch + 1
  /\ batch_atm_fields_compact[1] = EmptyGField4
  /\ batch_atm_fields_compact[2] = EmptyGField4

====
